---- MODULE Spec2Model ----
(***************************************************************************)
(* The Pylon transfer session of libpylon (src/src/lib.rs).                *)
(*                                                                         *)
(* A Pylon holds two optional slots: `handshake` (the pending ticket that  *)
(* gen_code stores and send_file takes) and `transfer_request` (the offer  *)
(* that request_file stores and receive_file takes).  Two sessions are     *)
(* modelled together with the rendezvous/transit collaborator that joins   *)
(* them, so that a code generated by one can be redeemed by the other.     *)
(* Every `.await` on the peer is a suspension point: the operation's       *)
(* position is kept in op[s].pc and resumed by a later step.               *)
(***************************************************************************)
EXTENDS Integers, Sequences, FiniteSets, TLC

\* Number of wormhole codes the rendezvous server hands out in a run.
MaxCodes == 2
\* Length in bytes of the longest file that is sent.
MaxFileLen == 2

Sessions == {"A", "B"}
Codes == 1..MaxCodes

\* Option::None of the two slots (lib.rs:102, lib.rs:105).
None == 0

\* The relay_url string a session is built with: one that parses, one that
\* is no URL at all, one that is a URL a RelayHint cannot be made from.
RelayUrls == {"valid", "malformed", "unsupported"}

\* The bytes of a readable file of n bytes.
Content(n) == [i \in 1..n |-> i]

\* The `file` argument of send_file: a path without a final component, a
\* name that is not UTF-8, a file that cannot be opened or whose metadata
\* cannot be read, or a readable file with its bytes.
FileArgs ==
    {[kind |-> k, bytes |-> <<>>] : k \in {"dotdot", "nonutf8", "missing"}}
        \cup {[kind |-> "ok", bytes |-> Content(n)] : n \in 0..MaxFileLen}

\* The `file` argument of receive_file: a path that can be created or not.
DestArgs == {"dest", "nodir"}

\* PylonError values (lib.rs:38-77) as returned by the four operations.
Ok == "Ok"
Pending == "pending"
CodegenError == "CodegenError"
UrlParseError == "UrlParseError"
RelayHintParseError == "RelayHintParseError"
TransferError == "TransferError"
InternalError == "InternalError"
ErrNoFileName == "Error: could not extract file name"
ErrFileNameStr == "Error: could not convert file name to str"
ErrIo == "Error: io"
ErrNoHandshake == "Error: There is currently no active handshake"
ErrNoRequest == "Error: There is currently no active transfer request"

\* No progress callback has been made in the current call.
NoProgress == <<-1, -1>>

VARIABLES
    relay_url,         \* [Sessions -> RelayUrls], fixed at construction
    alive,             \* [Sessions -> BOOLEAN], FALSE once destroyed
    handshake,         \* [Sessions -> {None} \cup Codes], the ticket slot
    transfer_request,  \* [Sessions -> {None} \cup Codes], the offer slot
    op,                \* [Sessions -> record], the call in progress on a session
    result,            \* what the step just taken returned to its caller,
                       \* see Returned; NoReturn when it returned nothing
    nextCode,          \* the next code the rendezvous server allocates
    claimant,          \* [Codes -> who is redeeming the code, "nobody" or "used"]
    chan,              \* the peer connection the last handshake set up
    fs,                \* [Sessions -> Seq], the bytes at the destination path
    sendSide,          \* [Sessions -> "fresh", "ticketed" or "spent"]: no
                       \* gen_code has succeeded since the last successful
                       \* send_file; gen_code stored a ticket that no
                       \* send_file has taken; the ticket was taken and no
                       \* send_file has succeeded since
    accepts,           \* [Codes -> Nat], how often the code's offer was accepted
    awaited            \* [Codes -> Nat], how many send_file calls took the
                       \* code's ticket to await it

vars == <<relay_url, alive, handshake, transfer_request, op, result, nextCode,
          claimant, chan, fs, sendSide, accepts, awaited>>

\* The connection keyed by code c, on which a file of n bytes is offered.
Connection(c, n) ==
    [code |-> c, size |-> n, wire |-> <<>>, accepted |-> FALSE, acked |-> FALSE]

NoConnection == Connection(None, 0)

Idle == [pc |-> "idle", code |-> None, bytes |-> <<>>, size |-> 0, rcvd |-> 0,
         cancel |-> FALSE, progress |-> NoProgress]

\* Session s's call of operation o returns r.  With it are recorded what
\* decided the call (a: the kind of argument it was made with or, for a
\* request_file that got an answer, whether the answer carried an offer) and
\* what the caller could observe: whether the call got as far as a network
\* step (n), and the slot the operation works on as the call found it (h).
Returned(s, o, a, r, n, h) ==
    [who |-> s, op |-> o, arg |-> a, res |-> r, net |-> n, had |-> h,
     side |-> sendSide[s]]

\* The step just taken returned nothing to a caller.
NoReturn ==
    [who |-> "nobody", op |-> "none", arg |-> "-", res |-> Ok, net |-> FALSE,
     had |-> None, side |-> "fresh"]

Init ==
    /\ relay_url \in [Sessions -> RelayUrls]
    /\ alive = [s \in Sessions |-> TRUE]
    /\ handshake = [s \in Sessions |-> None]
    /\ transfer_request = [s \in Sessions |-> None]
    /\ op = [s \in Sessions |-> Idle]
    /\ result = NoReturn
    /\ nextCode = 1
    /\ claimant = [c \in Codes |-> "nobody"]
    /\ chan = NoConnection
    /\ fs = [s \in Sessions |-> <<>>]
    /\ sendSide = [s \in Sessions |-> "fresh"]
    /\ accepts = [c \in Codes |-> 0]
    /\ awaited = [c \in Codes |-> 0]

\* A session can be called: it exists and no call on it is in progress
\* (every operation takes &mut self, destroy takes self).
Callable(s) == alive[s] /\ op[s].pc = "idle"

----------------------------------------------------------------------------
\* gen_code (lib.rs:124-136)

\* gen_code without its guard: a pending ticket goes unnoticed.
HasPendingHandshake_never(h) == FALSE

\* `if let Some(_) = &self.handshake` (lib.rs:125)
HasPendingHandshake(h) == h # None

\* The handshake future dropped at the end of the call instead of stored.
handshake_dropped(c) == None

\* What `self.handshake = Some(Box::new(Box::pin(handshake)))` puts in the
\* slot: the ticket of the code just allocated (lib.rs:133).
handshake_store(c) == c

\* The rendezvous server, as an argument of the call.
Rendezvous(reachable) == IF reachable THEN "up" ELSE "down"

\* gen_code treating a pending offer like a pending ticket.
gen_code_either_slot(s, reachable) ==
    /\ Callable(s)
    /\ (handshake[s] = None /\ transfer_request[s] = None /\ reachable)
          => nextCode <= MaxCodes
    /\ IF handshake[s] # None \/ transfer_request[s] # None
       THEN /\ result' = Returned(s, "gen_code", Rendezvous(reachable),
                                  CodegenError, FALSE, handshake[s])
            /\ UNCHANGED <<handshake, nextCode, sendSide>>
       ELSE IF reachable
            THEN /\ handshake' = [handshake EXCEPT ![s] = nextCode]
                 /\ nextCode' = nextCode + 1
                 /\ result' = Returned(s, "gen_code", "up", Ok, TRUE, None)
                 /\ sendSide' = [sendSide EXCEPT ![s] = "ticketed"]
            ELSE /\ result' = Returned(s, "gen_code", "down", InternalError, TRUE,
                                       None)
                 /\ UNCHANGED <<handshake, nextCode, sendSide>>
    /\ UNCHANGED <<relay_url, alive, transfer_request, op, claimant, chan, fs,
                   accepts, awaited>>

gen_code(s, reachable) ==
    /\ Callable(s)
    /\ (~HasPendingHandshake(handshake[s]) /\ reachable) => nextCode <= MaxCodes
    /\ IF HasPendingHandshake(handshake[s])
       THEN /\ result' = Returned(s, "gen_code", Rendezvous(reachable),
                                  CodegenError, FALSE, handshake[s])
            /\ UNCHANGED <<handshake, nextCode, sendSide>>
       ELSE IF reachable
            THEN /\ handshake' = [handshake EXCEPT ![s] = handshake_store(nextCode)]
                 /\ nextCode' = nextCode + 1
                 /\ result' = Returned(s, "gen_code", "up", Ok, TRUE,
                                       handshake[s])
                 /\ sendSide' = [sendSide EXCEPT ![s] = "ticketed"]
            ELSE /\ result' = Returned(s, "gen_code", "down", InternalError, TRUE,
                                       handshake[s])
                 /\ UNCHANGED <<handshake, nextCode, sendSide>>
    /\ UNCHANGED <<relay_url, alive, transfer_request, op, claimant, chan, fs,
                   accepts, awaited>>

----------------------------------------------------------------------------
\* send_file (lib.rs:146-202)

\* File resolution that does not look at the file name.
resolve_file_unnamed(f) == IF f.kind = "missing" THEN ErrIo ELSE Ok

\* File resolution that checks the name and never opens the file.
resolve_file_unopened(f) ==
    IF f.kind = "dotdot" THEN ErrNoFileName
    ELSE IF f.kind = "nonutf8" THEN ErrFileNameStr
    ELSE Ok

\* `file.as_ref().file_name()...to_str()`, `File::open`, `file.metadata()`
\* (lib.rs:157-172): the first of these that fails, or Ok.
resolve_file(f) ==
    IF f.kind = "dotdot" THEN ErrNoFileName
    ELSE IF f.kind = "nonutf8" THEN ErrFileNameStr
    ELSE IF f.kind = "missing" THEN ErrIo
    ELSE Ok

\* Relay hints built without parsing the URL string first.
relay_hints_unparsed(url) == IF url = "unsupported" THEN RelayHintParseError ELSE Ok

\* `RelayHint::from_urls(None, [self.relay_url.parse()?])?` (lib.rs:176, 218)
relay_hints(url) ==
    IF url = "malformed" THEN UrlParseError
    ELSE IF url = "unsupported" THEN RelayHintParseError
    ELSE Ok

\* Everything send_file does before it touches the ticket (lib.rs:157-176).
send_file_prepare(f, url) ==
    IF resolve_file(f) # Ok THEN resolve_file(f) ELSE relay_hints(url)

\* The ticket awaited through a reference, left in the slot.
handshake_peek(h) == h

\* What `self.handshake.take()` leaves in the slot (lib.rs:178).
handshake_take(h) == None

send_file(s, f) ==
    /\ Callable(s)
    /\ IF send_file_prepare(f, relay_url[s]) # Ok
       THEN /\ result' = Returned(s, "send_file", f.kind,
                                  send_file_prepare(f, relay_url[s]), FALSE,
                                  handshake[s])
            /\ UNCHANGED <<handshake, op, sendSide, awaited>>
       ELSE /\ handshake' = [handshake EXCEPT ![s] = handshake_take(handshake[s])]
            /\ IF handshake[s] = None
               THEN /\ result' = Returned(s, "send_file", f.kind, ErrNoHandshake,
                                          FALSE, None)
                    /\ UNCHANGED <<op, sendSide, awaited>>
               ELSE /\ result' = Returned(s, "send_file", f.kind, Pending, TRUE,
                                          handshake[s])
                    /\ sendSide' = [sendSide EXCEPT ![s] = "spent"]
                    /\ awaited' = [awaited EXCEPT ![handshake[s]] = @ + 1]
                    /\ op' = [op EXCEPT ![s] =
                                [Idle EXCEPT !.pc = "send_await",
                                             !.code = handshake[s],
                                             !.bytes = f.bytes,
                                             !.size = Len(f.bytes)]]
    /\ UNCHANGED <<relay_url, alive, transfer_request, nextCode, claimant, chan,
                   fs, accepts>>

\* `h.await` yields the wormhole (lib.rs:185) as `connect_with_code` does on
\* the redeeming side (lib.rs:220): the key exchange completes for both
\* peers of a code, once; transfer::send_file then offers the file with
\* file_size (lib.rs:186-196) and transfer::request_file waits for the offer.
handshake_done(x, y) ==
    /\ op[x].pc = "send_await"
    /\ op[y].pc = "req_connect"
    /\ op[x].code = op[y].code
    /\ claimant[op[x].code] = y
    /\ op' = [op EXCEPT ![x].pc = "send_offer", ![y].pc = "req_offer"]
    /\ claimant' = [claimant EXCEPT ![op[x].code] = "used"]
    /\ chan' = Connection(op[x].code, op[x].size)
    /\ result' = NoReturn
    /\ UNCHANGED <<relay_url, alive, handshake, transfer_request, nextCode,
                   fs, sendSide, accepts, awaited>>

\* The receiver accepted: data starts to flow and the progress handler is
\* first called (lib.rs:194).
send_begin(s) ==
    /\ op[s].pc = "send_offer"
    /\ chan.code = op[s].code
    /\ chan.accepted
    /\ op' = [op EXCEPT ![s].pc = "send_data", ![s].progress = <<0, op[s].size>>]
    /\ result' = NoReturn
    /\ UNCHANGED <<relay_url, alive, handshake, transfer_request, nextCode,
                   claimant, chan, fs, sendSide, accepts, awaited>>

\* One chunk of `&mut file` goes on the wire (lib.rs:189, 194).
send_chunk(s) ==
    /\ op[s].pc = "send_data"
    /\ Len(chan.wire) < op[s].size
    /\ chan' = [chan EXCEPT !.wire = Append(@, op[s].bytes[Len(@) + 1])]
    /\ op' = [op EXCEPT ![s].progress = <<Len(chan.wire) + 1, op[s].size>>]
    /\ result' = NoReturn
    /\ UNCHANGED <<relay_url, alive, handshake, transfer_request, nextCode,
                   claimant, fs, sendSide, accepts, awaited>>

\* `sender.await?; Ok(())` (lib.rs:199-201): all bytes sent and acknowledged;
\* the connection is closed.
send_done(s) ==
    /\ op[s].pc = "send_data"
    /\ Len(chan.wire) = op[s].size
    /\ chan.acked
    /\ op' = [op EXCEPT ![s] = Idle]
    /\ chan' = NoConnection
    /\ result' = Returned(s, "send_file", "ok", Ok, TRUE, op[s].code)
    /\ sendSide' = [sendSide EXCEPT ![s] = "fresh"]
    /\ UNCHANGED <<relay_url, alive, handshake, transfer_request, nextCode,
                   claimant, fs, accepts, awaited>>

----------------------------------------------------------------------------
\* request_file (lib.rs:211-226)

request_file(s, c) ==
    /\ Callable(s)
    /\ IF relay_hints(relay_url[s]) # Ok
       THEN /\ result' = Returned(s, "request_file", "code",
                                  relay_hints(relay_url[s]), FALSE,
                                  transfer_request[s])
            /\ UNCHANGED <<op, claimant>>
       ELSE /\ result' = Returned(s, "request_file", "code", Pending, TRUE,
                                  transfer_request[s])
            /\ op' = [op EXCEPT ![s] = [Idle EXCEPT !.pc = "req_connect", !.code = c]]
            /\ claimant' = IF c < nextCode /\ claimant[c] = "nobody"
                           THEN [claimant EXCEPT ![c] = s]
                           ELSE claimant
    /\ UNCHANGED <<relay_url, alive, handshake, transfer_request, nextCode, chan,
                   fs, sendSide, accepts, awaited>>

\* An assignment that only replaces the slot when there is an offer.
transfer_request_merge(old, request) == IF request = None THEN old ELSE request

\* What `self.transfer_request = request` leaves in the slot, request being
\* the Option the collaborator yielded (lib.rs:223).
transfer_request_assign(old, request) == request

\* request_file keeping what it got in the ticket slot instead of the offer
\* slot.
offer_stored_as_ticket(s) ==
    /\ op[s].pc = "req_offer"
    /\ chan.code = op[s].code
    /\ handshake' = [handshake EXCEPT ![s] = op[s].code]
    /\ op' = [op EXCEPT ![s] = Idle]
    /\ result' = Returned(s, "request_file", "offer", Ok, TRUE, transfer_request[s])
    /\ UNCHANGED <<relay_url, alive, transfer_request, nextCode, claimant, chan,
                   fs, sendSide, accepts, awaited>>

\* `self.transfer_request = request` with Some(offer) (lib.rs:221-225).
offer_arrives(s) ==
    /\ op[s].pc = "req_offer"
    /\ chan.code = op[s].code
    /\ transfer_request' = [transfer_request EXCEPT ![s] =
                              transfer_request_assign(@, op[s].code)]
    /\ UNCHANGED <<accepts, awaited>>
    /\ op' = [op EXCEPT ![s] = Idle]
    /\ result' = Returned(s, "request_file", "offer", Ok, TRUE, transfer_request[s])
    /\ UNCHANGED <<relay_url, alive, handshake, nextCode, claimant, chan, fs,
                   sendSide>>

\* `self.transfer_request = request` with None (lib.rs:221-225).
offer_none(s) ==
    /\ op[s].pc = "req_offer"
    /\ transfer_request' = [transfer_request EXCEPT ![s] =
                              transfer_request_assign(@, None)]
    /\ UNCHANGED <<accepts, awaited>>
    /\ op' = [op EXCEPT ![s] = Idle]
    /\ result' = Returned(s, "request_file", "no offer", Ok, TRUE,
                          transfer_request[s])
    /\ UNCHANGED <<relay_url, alive, handshake, nextCode, claimant, chan, fs,
                   sendSide>>

----------------------------------------------------------------------------
\* receive_file (lib.rs:237-267)

\* The destination opened for writing without being truncated.
file_open_append(old) == old

\* `File::create(&file)` truncates what is at the path (lib.rs:248).
file_create(old) == <<>>

\* The error of File::create dropped instead of returned.
create_error_dropped(d) == FALSE

\* `File::create(&file)...map_err(..)?` fails (lib.rs:248-250).
create_fails(d) == d = "nodir"

\* The offer read through a reference instead of taken.
transfer_request_peek(r) == r

\* What `self.transfer_request.take()` leaves in the slot (lib.rs:253).
transfer_request_take(r) == None

receive_file(s, d) ==
    /\ Callable(s)
    /\ IF create_fails(d)
       THEN /\ result' = Returned(s, "receive_file", d, ErrIo, FALSE,
                                  transfer_request[s])
            /\ UNCHANGED <<transfer_request, op, chan, fs, accepts>>
       ELSE /\ fs' = [fs EXCEPT ![s] = file_create(fs[s])]
            /\ transfer_request' = [transfer_request EXCEPT ![s] =
                                      transfer_request_take(transfer_request[s])]
            /\ IF transfer_request[s] = None
               THEN /\ result' = Returned(s, "receive_file", d, ErrNoRequest,
                                          FALSE, None)
                    /\ UNCHANGED <<op, chan, accepts>>
               ELSE /\ result' = Returned(s, "receive_file", d, Pending, TRUE,
                                          transfer_request[s])
                    /\ op' = [op EXCEPT ![s] =
                                [Idle EXCEPT !.pc = "recv_accept",
                                             !.code = transfer_request[s]]]
                    /\ chan' = IF chan.code = transfer_request[s]
                               THEN [chan EXCEPT !.accepted = TRUE]
                               ELSE chan
                    /\ accepts' = [accepts EXCEPT ![transfer_request[s]] = @ + 1]
    /\ UNCHANGED <<relay_url, alive, handshake, nextCode, claimant, sendSide,
                   awaited>>

\* `r.accept(..)` has the data channel: the progress handler is first
\* called, with the size the offer announced (lib.rs:256).
recv_begin(s) ==
    /\ op[s].pc = "recv_accept"
    /\ chan.code = op[s].code
    /\ op' = [op EXCEPT ![s].pc = "recv_data", ![s].size = chan.size,
                        ![s].progress = <<0, chan.size>>]
    /\ result' = NoReturn
    /\ UNCHANGED <<relay_url, alive, handshake, transfer_request, nextCode,
                   claimant, chan, fs, sendSide, accepts, awaited>>

\* One chunk is written to `&mut file` (lib.rs:256).
recv_chunk(s) ==
    /\ op[s].pc = "recv_data"
    /\ chan.code = op[s].code
    /\ op[s].rcvd < Len(chan.wire)
    /\ fs' = [fs EXCEPT ![s] = Append(@, chan.wire[op[s].rcvd + 1])]
    /\ op' = [op EXCEPT ![s].rcvd = @ + 1,
                        ![s].progress = <<op[s].rcvd + 1, op[s].size>>]
    /\ result' = NoReturn
    /\ UNCHANGED <<relay_url, alive, handshake, transfer_request, nextCode,
                   claimant, chan, sendSide, accepts, awaited>>

\* `.await?; Ok(())` (lib.rs:257-266): everything arrived and is acknowledged.
recv_done(s) ==
    /\ op[s].pc = "recv_data"
    /\ op[s].rcvd = op[s].size
    /\ chan' = IF chan.code = op[s].code THEN [chan EXCEPT !.acked = TRUE] ELSE chan
    /\ op' = [op EXCEPT ![s] = Idle]
    /\ result' = Returned(s, "receive_file", "dest", Ok, TRUE, op[s].code)
    /\ UNCHANGED <<relay_url, alive, handshake, transfer_request, nextCode,
                   claimant, fs, sendSide, accepts, awaited>>

----------------------------------------------------------------------------
\* Failure, cancellation, disposal

\* The operation whose suspension point pc is.
OpOf(pc) ==
    IF pc \in {"send_await", "send_offer", "send_data"} THEN "send_file"
    ELSE IF pc \in {"req_connect", "req_offer"} THEN "request_file"
    ELSE "receive_file"

\* The argument a call that got to suspension point pc was made with.
ArgOf(pc) ==
    IF OpOf(pc) = "send_file" THEN "ok"
    ELSE IF OpOf(pc) = "request_file" THEN "code"
    ELSE "dest"

\* The slot of its operation as the call in progress on s found it: the
\* ticket or offer it took, or the offer slot request_file has yet to write.
HadAt(s) ==
    IF OpOf(op[s].pc) = "request_file" THEN transfer_request[s] ELSE op[s].code

\* The error `?` propagates from a suspension point: a WormholeError from the
\* handshake (lib.rs:185, 220), a TransferError from the transfer
\* (lib.rs:199, 222, 257).
ErrorAt(pc) ==
    IF pc \in {"send_await", "req_connect"} THEN InternalError ELSE TransferError

\* The suspension points that are given the caller's cancel_handler
\* (lib.rs:195, 222, 256).
Cancellable(pc) ==
    pc \in {"send_offer", "send_data", "req_offer", "recv_accept", "recv_data"}

\* A failing request_file that resets the offer slot on its way out.
Fails_clearing_offer(s) ==
    /\ op' = [op EXCEPT ![s] = Idle]
    /\ result' = Returned(s, OpOf(op[s].pc), ArgOf(op[s].pc), ErrorAt(op[s].pc),
                          TRUE, HadAt(s))
    /\ chan' = IF op[s].pc \in {"send_offer", "send_data"} /\ chan.code = op[s].code
               THEN NoConnection
               ELSE chan
    /\ claimant' = IF op[s].pc = "req_connect" /\ claimant[op[s].code] = s
                   THEN [claimant EXCEPT ![op[s].code] = "used"]
                   ELSE claimant
    /\ transfer_request' = IF OpOf(op[s].pc) = "request_file"
                           THEN [transfer_request EXCEPT ![s] = None]
                           ELSE transfer_request
    /\ UNCHANGED <<relay_url, alive, handshake, nextCode, fs, sendSide, accepts,
                   awaited>>

\* The call in progress on s returns the error of its suspension point; a
\* sender that gives up closes its connection, and the code of a redemption
\* that gave up is worth nothing any more.
Fails(s) ==
    /\ op' = [op EXCEPT ![s] = Idle]
    /\ result' = Returned(s, OpOf(op[s].pc), ArgOf(op[s].pc), ErrorAt(op[s].pc),
                          TRUE, HadAt(s))
    /\ chan' = IF op[s].pc \in {"send_offer", "send_data"} /\ chan.code = op[s].code
               THEN NoConnection
               ELSE chan
    /\ claimant' = IF op[s].pc = "req_connect" /\ claimant[op[s].code] = s
                   THEN [claimant EXCEPT ![op[s].code] = "used"]
                   ELSE claimant
    /\ UNCHANGED <<relay_url, alive, handshake, transfer_request, nextCode, fs,
                   sendSide, accepts, awaited>>

\* The peer or the network fails the awaited step.
await_fails(s) ==
    /\ op[s].pc # "idle"
    /\ Fails(s)

\* The caller's cancel signal fires while the call waits for the peer
\* connection.  (Once the transfer runs, a cancel signal that fires and
\* aborts it is one of the failures of await_fails.)
cancel(s) ==
    /\ op[s].pc \in {"send_await", "req_connect"}
    /\ ~op[s].cancel
    /\ op' = [op EXCEPT ![s].cancel = TRUE]
    /\ result' = NoReturn
    /\ UNCHANGED <<relay_url, alive, handshake, transfer_request, nextCode,
                   claimant, chan, fs, sendSide, accepts, awaited>>

\* The transfer is started with a cancel signal that has already fired,
\* polls it and aborts.
cancelled(s) ==
    /\ Cancellable(op[s].pc)
    /\ op[s].cancel
    /\ Fails(s)

\* destroy (lib.rs:275-277): the session and both slots are dropped.
destroy(s) ==
    /\ Callable(s)
    /\ alive' = [alive EXCEPT ![s] = FALSE]
    /\ handshake' = [handshake EXCEPT ![s] = None]
    /\ transfer_request' = [transfer_request EXCEPT ![s] = None]
    /\ UNCHANGED <<accepts, awaited>>
    /\ sendSide' = [sendSide EXCEPT ![s] = "fresh"]
    /\ result' = Returned(s, "destroy", "-", Ok, FALSE, None)
    /\ UNCHANGED <<relay_url, op, nextCode, claimant, chan, fs>>

----------------------------------------------------------------------------
Next ==
    \E s \in Sessions :
        \/ \E reachable \in BOOLEAN : gen_code(s, reachable)
        \/ \E f \in FileArgs : send_file(s, f)
        \/ \E y \in Sessions : handshake_done(s, y)
        \/ send_begin(s)
        \/ send_chunk(s)
        \/ send_done(s)
        \/ \E c \in Codes : request_file(s, c)
        \/ offer_arrives(s)
        \/ offer_none(s)
        \/ \E d \in DestArgs : receive_file(s, d)
        \/ recv_begin(s)
        \/ recv_chunk(s)
        \/ recv_done(s)
        \/ await_fails(s)
        \/ cancel(s)
        \/ cancelled(s)
        \/ destroy(s)

Spec == Init /\ [][Next]_vars

\* The steps the session's own executor takes once they are possible: a
\* transfer that can move on does, and a transfer started with a fired
\* cancel signal aborts.  Nothing makes a peer arrive.
Progress(s) ==
    \/ send_begin(s)
    \/ send_chunk(s)
    \/ send_done(s)
    \/ recv_begin(s)
    \/ recv_chunk(s)
    \/ recv_done(s)
    \/ cancelled(s)

FairSpec == Spec /\ \A s \in Sessions : WF_vars(Progress(s))

----------------------------------------------------------------------------
\* Properties

\* A call has returned (it is not merely suspended at an await).
Finished == result.op # "none" /\ result.res # Pending

FileErrors == {ErrNoFileName, ErrFileNameStr, ErrIo}

\* C1: after any send_file call, whatever it returns, the session's ticket
\* slot is empty.
C1_TicketEmptyAfterSend ==
    (Finished /\ result.op = "send_file") => handshake[result.who] = None

\* C2: after any receive_file call, whatever it returns, the session's offer
\* slot is empty.
C2_OfferEmptyAfterReceive ==
    (Finished /\ result.op = "receive_file") => transfer_request[result.who] = None

\* C3 as stated: a gen_code call that follows an earlier gen_code call on the
\* session (one that returned a code), with no successful send_file between
\* the two, fails with the code-generation error.
C3_SecondGenFails ==
    (result.op = "gen_code" /\ result.side # "fresh") => result.res = CodegenError

\* C3 amended: a gen_code call that follows a successful gen_code call on the
\* session, with no send_file call that took the ticket between the two,
\* fails with the code-generation error.
C3_GenFailsWhileTicketed ==
    (result.op = "gen_code" /\ result.side = "ticketed") => result.res = CodegenError

C3_Witness ==
    result.op = "gen_code" /\ result.side = "ticketed" /\ result.res = CodegenError

\* C4: a session holds at most one ticket and gen_code never overwrites it:
\* called while a ticket is pending it returns the code-generation error,
\* makes no network step and leaves the ticket as it was.
C4_PendingTicketKept ==
    /\ \A s \in Sessions : handshake[s] \in {None} \cup Codes
    /\ (result.op = "gen_code" /\ result.had # None) =>
          /\ result.res = CodegenError
          /\ ~result.net
          /\ handshake[result.who] = result.had

C4_Witness ==
    result.op = "gen_code" /\ result.had # None /\ result.arg = "up"

\* C5 as stated: with no pending ticket, send_file fails with "no active
\* handshake" for every file argument and relay URL.
C5_NoTicketNoHandshakeError ==
    (Finished /\ result.op = "send_file" /\ result.had = None) =>
        result.res = ErrNoHandshake

\* C5 amended: with no pending ticket, send_file fails before any network
\* step and leaves the slot empty; it fails with "no active handshake"
\* exactly when the file resolves and the relay URL parses, and otherwise
\* with the error of the file or of the relay URL.
C5_NoTicketSendFails ==
    (result.op = "send_file" /\ result.had = None) =>
        /\ result.res \in FileErrors \cup
                          {UrlParseError, RelayHintParseError, ErrNoHandshake}
        /\ ~result.net
        /\ handshake[result.who] = None
        /\ result.res = ErrNoHandshake <=>
              (result.arg = "ok" /\ relay_url[result.who] = "valid")
        /\ result.res \in FileErrors <=> result.arg # "ok"

C5_Witness ==
    result.op = "send_file" /\ result.had = None /\ result.res = ErrNoHandshake

\* C6 as stated: with no pending offer, receive_file fails with "no active
\* transfer request" for every destination path.
C6_NoOfferNoRequestError ==
    (Finished /\ result.op = "receive_file" /\ result.had = None) =>
        result.res = ErrNoRequest

\* C6 amended: with no pending offer, receive_file fails before any network
\* step and leaves the slot empty; it fails with "no active transfer
\* request" exactly when the destination can be created, and otherwise with
\* the filesystem error.
C6_NoOfferReceiveFails ==
    (result.op = "receive_file" /\ result.had = None) =>
        /\ result.res \in {ErrIo, ErrNoRequest}
        /\ ~result.net
        /\ transfer_request[result.who] = None
        /\ result.res = ErrNoRequest <=> result.arg = "dest"

C6_Witness ==
    result.op = "receive_file" /\ result.had = None /\ result.res = ErrNoRequest

\* C7: once the cancel signal has fired while send_file awaits the ticket or
\* request_file redeems the code, the call eventually returns a transfer or
\* protocol error.
C7_CancelEndsTheWait ==
    \A s \in Sessions :
        (op[s].cancel /\ op[s].pc \in {"send_await", "req_connect"})
            ~> (result.who = s /\ result.res \in {TransferError, InternalError})

\* C8 as stated: on a session built with a malformed relay URL every
\* send_file and request_file call fails with the URL-parse error, before
\* any network step.
C8_MalformedRelayUrlError ==
    (result.op \in {"send_file", "request_file"}
        /\ relay_url[result.who] = "malformed") =>
            result.res = UrlParseError /\ ~result.net

\* C8 amended: on a session built with a malformed relay URL every
\* request_file call, and every send_file call whose file resolves, fails
\* with the URL-parse error; a send_file call whose file does not resolve
\* fails with the file's error; all of them before any network step.
C8_MalformedRelayNoNetwork ==
    (result.op \in {"send_file", "request_file"}
        /\ relay_url[result.who] = "malformed") =>
            /\ ~result.net
            /\ result.arg \in {"ok", "code"} => result.res = UrlParseError
            /\ result.arg \notin {"ok", "code"} => result.res \in FileErrors

C8_Witness ==
    /\ result.op = "send_file"
    /\ result.arg = "ok"
    /\ result.had # None
    /\ result.res = UrlParseError

\* The sessions sending on code c.
Senders(c) ==
    {x \in Sessions : op[x].pc \in {"send_offer", "send_data"} /\ op[x].code = c}

C10_OfferMovedOutOnce ==
    /\ \A s \in Sessions : transfer_request[s] \in {None} \cup Codes
    /\ \A c \in Codes :
          /\ accepts[c] <= 1
          /\ Cardinality({s \in Sessions : transfer_request[s] = c}) <= 1
          /\ (\E s \in Sessions : transfer_request[s] = c) => accepts[c] = 0

C10_Witness ==
    \E c \in Codes :
        /\ accepts[c] = 1
        /\ \A s \in Sessions : transfer_request[s] # c
        /\ \E s \in Sessions : transfer_request[s] \in Codes

\* The slot an operation works on: the ticket for gen_code and send_file,
\* the offer for request_file and receive_file.
SlotOf(o, s) ==
    IF o \in {"gen_code", "send_file"} THEN handshake[s] ELSE transfer_request[s]

\* C11: whenever gen_code, send_file, request_file or receive_file returns
\* an error, the slot that operation works on is empty afterwards.
C11_SlotEmptyAfterError ==
    (Finished /\ result.res # Ok
        /\ result.op \in {"gen_code", "send_file", "request_file", "receive_file"})
            => SlotOf(result.op, result.who) = None

\* The suspension points of the send side and of the receive side.
SendPcs == {"send_await", "send_offer", "send_data"}

RecvPcs == {"req_connect", "req_offer", "recv_accept", "recv_data"}

\* C12: no step of request_file or receive_file on a session, whether it
\* returns success, returns an error or suspends, changes the session's
\* ticket slot, and no step of gen_code or send_file changes its offer slot.
C12_SubMachinesIndependent ==
    [][\A s \in Sessions :
          /\ (op[s].pc \in RecvPcs
                \/ (result'.who = s
                       /\ result'.op \in {"request_file", "receive_file"}))
                => handshake'[s] = handshake[s]
          /\ (op[s].pc \in SendPcs
                \/ (result'.who = s /\ result'.op \in {"gen_code", "send_file"}))
                => transfer_request'[s] = transfer_request[s]]_vars

C12_Witness ==
    /\ result.op = "request_file"
    /\ result.arg = "offer"
    /\ result.res = Ok
    /\ handshake[result.who] # None
    /\ transfer_request[result.who] # None

\* C13: a ticket is single-use: the ticket of a code is taken to be awaited
\* by at most one send_file call, a ticket still in a slot has never been
\* awaited and no call awaits it, no two calls await the same ticket, and a
\* peer connection made from a ticket exists only while the one call that
\* took it is in progress.
C13_TicketSingleUse ==
    \A c \in Codes :
        /\ awaited[c] <= 1
        /\ \A s \in Sessions :
              /\ handshake[s] = c =>
                    /\ awaited[c] = 0
                    /\ \A t \in Sessions : ~(op[t].pc \in SendPcs /\ op[t].code = c)
              /\ (op[s].pc \in SendPcs /\ op[s].code = c) =>
                    /\ awaited[c] = 1
                    /\ \A t \in Sessions \ {s} :
                          ~(op[t].pc \in SendPcs /\ op[t].code = c)
        /\ chan.code = c =>
              \E s \in Sessions :
                  op[s].pc \in {"send_offer", "send_data"} /\ op[s].code = c

\* A ticket's handshake failed, and the session went on to generate a second
\* code and to send on it.
C13_Witness ==
    \E s \in Sessions :
        /\ awaited[1] = 1
        /\ awaited[2] = 1
        /\ op[s].pc = "send_data"
        /\ op[s].code = 2
        /\ sendSide[s] = "spent"
        /\ \A t \in Sessions : op[t].code # 1
        /\ claimant[1] = "nobody"

\* C14: gen_code called with no ticket pending and the rendezvous endpoint
\* reachable returns the code with its ticket stored, the call is over, and
\* no peer has redeemed the code or is connected on it; as long as a ticket
\* stays in its slot no peer connection exists for it, a peer that redeems
\* the code is kept waiting, and only a send_file call waits for the peer.
C14_CodeReturnedWithoutPeer ==
    /\ (result.op = "gen_code" /\ result.had = None /\ result.arg = "up") =>
          /\ result.res = Ok
          /\ handshake[result.who] \in Codes
          /\ handshake[result.who] = nextCode - 1
          /\ op[result.who].pc = "idle"
          /\ claimant[handshake[result.who]] = "nobody"
    /\ \A s \in Sessions :
          /\ handshake[s] # None =>
                /\ chan.code # handshake[s]
                /\ \A t \in Sessions :
                      op[t].code = handshake[s] => op[t].pc = "req_connect"

\* A code was returned while nothing else has ever happened: no peer exists.
C14_Witness ==
    /\ result.op = "gen_code"
    /\ result.res = Ok
    /\ handshake[result.who] \in Codes
    /\ \A t \in Sessions : op[t].pc = "idle" /\ transfer_request[t] = None
    /\ \A c \in Codes : claimant[c] = "nobody" /\ awaited[c] = 0

\* C15: a session may hold a ticket and an offer together.  gen_code called
\* while an offer is pending (no ticket pending, rendezvous reachable)
\* succeeds, stores its ticket and leaves the offer; request_file called
\* while a ticket is pending is not refused (it fails only on its relay URL,
\* else goes on to redeem the code), and when its offer arrives it succeeds,
\* stores the offer and leaves the ticket.
C15_RolesInterleave ==
    [][\A s \in Sessions :
          /\ (result'.who = s /\ result'.op = "gen_code" /\ result'.arg = "up"
                /\ handshake[s] = None /\ transfer_request[s] # None) =>
                /\ result'.res = Ok
                /\ handshake'[s] # None
                /\ transfer_request'[s] = transfer_request[s]
          /\ (result'.who = s /\ result'.op = "request_file" /\ op[s].pc = "idle"
                /\ handshake[s] # None) =>
                /\ result'.res =
                      (IF relay_hints(relay_url[s]) = Ok
                       THEN Pending ELSE relay_hints(relay_url[s]))
                /\ handshake'[s] = handshake[s]
          /\ (result'.who = s /\ result'.op = "request_file"
                /\ result'.arg = "offer" /\ handshake[s] # None) =>
                /\ result'.res = Ok
                /\ transfer_request'[s] # None
                /\ handshake'[s] = handshake[s]]_vars

\* gen_code has just succeeded on a session that holds an offer.
C15_Witness ==
    /\ result.op = "gen_code"
    /\ result.res = Ok
    /\ handshake[result.who] # None
    /\ transfer_request[result.who] # None

\* C16: send_file keeps a fixed order.  A call whose file does not resolve
\* returns the file's error without touching or awaiting the ticket; a call
\* that awaits the ticket has the file's bytes and size.  While the ticket
\* is awaited no progress callback has been made and there is no connection;
\* the progress callback is only made, and data only goes on the wire, by a
\* sender that has its connection.  A call whose handshake fails returns
\* without a progress callback, without data sent and with no file written.
C16_SendFileOrder ==
    [][\A s \in Sessions :
          /\ (result'.who = s /\ result'.op = "send_file" /\ op[s].pc = "idle") =>
                /\ result'.arg # "ok" =>
                      /\ result'.res \in FileErrors
                      /\ handshake'[s] = handshake[s]
                      /\ op'[s].pc = "idle"
                /\ op'[s].pc # "idle" =>
                      /\ op'[s].pc = "send_await"
                      /\ result'.arg = "ok"
                      /\ op'[s].size = Len(op'[s].bytes)
          /\ op'[s].pc = "send_await" =>
                /\ op'[s].progress = NoProgress
                /\ chan'.code # op'[s].code
          /\ (op[s].pc \in SendPcs /\ op'[s].pc \in SendPcs
                /\ op'[s].progress # op[s].progress) =>
                /\ op[s].pc \in {"send_offer", "send_data"}
                /\ chan.code = op[s].code
          /\ (chan'.code = op[s].code /\ op[s].pc \in SendPcs
                /\ chan'.wire # chan.wire) =>
                /\ op[s].pc = "send_data"
                /\ chan.code = op[s].code
          /\ (op[s].pc = "send_await" /\ op'[s].pc = "idle") =>
                /\ result'.who = s
                /\ result'.res = InternalError
                /\ op[s].progress = NoProgress
                /\ chan'.wire = chan.wire
                /\ fs' = fs]_vars

\* The handshake of a send_file call has failed.
C16_Witness ==
    /\ result.op = "send_file"
    /\ result.res = InternalError
    /\ result.had # None
    /\ awaited[result.had] = 1

\* C17 as stated: a request_file that succeeds without an offer leaves the
\* offer slot empty, whatever it held, and a receive_file call that follows
\* on the session fails with "no active transfer request".
C17_NoOfferThenNoRequestError ==
    [][\A s \in Sessions :
          /\ (result'.who = s /\ result'.op = "request_file"
                /\ result'.arg = "no offer") =>
                result'.res = Ok /\ transfer_request'[s] = None
          /\ (result.who = s /\ result.op = "request_file"
                /\ result.arg = "no offer"
                /\ result'.who = s /\ result'.op = "receive_file") =>
                result'.res = ErrNoRequest]_vars

\* C17 amended: a request_file that succeeds without an offer leaves the
\* offer slot empty, whatever it held, and a receive_file call that follows
\* on the session fails before any network step and leaves the slot empty:
\* with "no active transfer request" when its destination can be created,
\* with the filesystem error when it cannot.
C17_NoOfferEmptiesSlot ==
    [][\A s \in Sessions :
          /\ (result'.who = s /\ result'.op = "request_file"
                /\ result'.arg = "no offer") =>
                result'.res = Ok /\ transfer_request'[s] = None
          /\ (result.who = s /\ result.op = "request_file"
                /\ result.arg = "no offer"
                /\ result'.who = s /\ result'.op = "receive_file") =>
                /\ result'.res = (IF result'.arg = "dest" THEN ErrNoRequest ELSE ErrIo)
                /\ ~result'.net
                /\ transfer_request'[s] = None]_vars

\* A request_file has returned without an offer on a session that held one.
C17_Witness ==
    /\ result.op = "request_file"
    /\ result.arg = "no offer"
    /\ result.res = Ok
    /\ result.had # None
    /\ transfer_request[result.who] = None

\* C18 as stated: on a session built with a malformed relay URL, once
\* gen_code has succeeded the ticket stays in its slot, every later
\* send_file fails at the relay URL's parsing without taking the ticket,
\* and every later gen_code fails with the code-generation error.
C18_MalformedRelayStuck ==
    /\ \A s \in Sessions :
          (relay_url[s] = "malformed" /\ sendSide[s] # "fresh") =>
              handshake[s] # None
    /\ (result.who \in Sessions /\ relay_url[result.who] = "malformed"
          /\ result.side # "fresh") =>
          /\ result.op = "send_file" =>
                /\ result.res = UrlParseError
                /\ handshake[result.who] = result.had
          /\ result.op = "gen_code" => result.res = CodegenError

\* C18 amended: on a session built with a malformed relay URL gen_code is
\* not refused; once it has succeeded the ticket stays in its slot for as
\* long as the session exists, every later send_file fails before it takes
\* the ticket and before any network step (with the URL-parse error when
\* its file resolves, with the file's error when it does not), and every
\* later gen_code fails with the code-generation error.
C18_MalformedRelayKeepsTicket ==
    /\ \A s \in Sessions :
          (relay_url[s] = "malformed" /\ sendSide[s] # "fresh") =>
              /\ sendSide[s] = "ticketed"
              /\ handshake[s] # None
    /\ (result.op = "gen_code" /\ relay_url[result.who] = "malformed"
          /\ result.side = "fresh" /\ result.arg = "up") => result.res = Ok
    /\ (result.who \in Sessions /\ relay_url[result.who] = "malformed"
          /\ result.side # "fresh") =>
          /\ result.op = "send_file" =>
                /\ result.res \in FileErrors \cup {UrlParseError}
                /\ result.res = UrlParseError <=> result.arg = "ok"
                /\ ~result.net
                /\ handshake[result.who] = result.had
          /\ result.op = "gen_code" =>
                /\ result.res = CodegenError
                /\ handshake[result.who] = result.had

\* A gen_code refused on a session with a malformed relay URL, which can
\* only be after an earlier gen_code stored a ticket there.
C18_Witness ==
    /\ result.op = "gen_code"
    /\ result.res = CodegenError
    /\ relay_url[result.who] = "malformed"
    /\ handshake[result.who] # None

\* C19: receive_file creates the destination before it looks at the offer
\* slot: called with no offer pending and a destination that can be created
\* it returns "no active transfer request" and leaves the destination empty,
\* whatever it held; called with a destination that cannot be created it
\* returns the filesystem error and leaves the offer slot and the
\* destination as they were.
C19_TruncatesBeforeOfferCheck ==
    [][\A s \in Sessions :
          (result'.who = s /\ result'.op = "receive_file" /\ op[s].pc = "idle") =>
              /\ (result'.arg = "dest" /\ transfer_request[s] = None) =>
                    /\ result'.res = ErrNoRequest
                    /\ fs'[s] = <<>>
              /\ result'.arg = "nodir" =>
                    /\ result'.res = ErrIo
                    /\ transfer_request'[s] = transfer_request[s]
                    /\ fs'[s] = fs[s]]_vars

\* A receive_file with no offer pending has emptied the destination of a
\* session that had accepted an offer before.
C19_Witness ==
    /\ result.op = "receive_file"
    /\ result.res = ErrNoRequest
    /\ fs[result.who] = <<>>
    /\ \E c \in Codes : accepts[c] = 1 /\ claimant[c] = "used"
    /\ \A t \in Sessions : op[t].pc = "idle"

\* C20: request_file writes the offer slot only when it returns success.
\* The call step (which returns the relay URL's error or suspends to redeem
\* the code), every step taken while the call is suspended, and the step
\* that returns the error of the redemption or of the wait for the offer
\* (a fired cancel signal included) leave the slot holding what it held.
C20_RequestWritesOnlyOnSuccess ==
    [][\A s \in Sessions :
          /\ (result'.who = s /\ result'.op = "request_file"
                /\ result'.res # Ok) =>
                /\ transfer_request'[s] = transfer_request[s]
                /\ result'.had = transfer_request[s]
                /\ op[s].pc = "idle" =>
                      result'.res \in {UrlParseError, RelayHintParseError, Pending}
                /\ op[s].pc = "req_connect" => result'.res = InternalError
                /\ op[s].pc = "req_offer" => result'.res = TransferError
          /\ (op[s].pc \in {"req_connect", "req_offer"}
                /\ ~(result'.who = s /\ result'.res = Ok)) =>
                transfer_request'[s] = transfer_request[s]]_vars

\* A request_file has failed while it waited for the offer, on a session
\* that holds the offer of an earlier request_file.
C20_Witness ==
    /\ result.op = "request_file"
    /\ result.res = TransferError
    /\ result.had # None
    /\ transfer_request[result.who] = result.had
====
